---- MODULE Spec2Model ----
(***************************************************************************)
(* Model of timeseries/storage_manager.py: FileStorageManager (a file      *)
(* store with a write-through / read-through recency cache) and the        *)
(* SMTimeSeries handle that delegates to it.                               *)
(***************************************************************************)
EXTENDS Integers, Sequences, FiniteSets, TLC

(***************************************************************************)
(* Bounds of the model.                                                    *)
(***************************************************************************)
\* length of the longest series that is stored
MaxLen == 4
\* number of SMTimeSeries handles that are constructed
MaxHandles == 2
\* number of calls a thread makes
MaxCalls == 2

(***************************************************************************)
(* Program constants.                                                      *)
(***************************************************************************)
\* self._cache_size_max = max_cache_size * 1024
CacheSizeUnit == 1024
\* self._cache_trim = 0.2, kept as the exact fraction TrimNum / TrimDen
TrimNum == 1
TrimDen == 5
\* size estimate of a series: ElemWidth * length + Overhead
ElemWidth == 100
Overhead == 100

(***************************************************************************)
(* Values.                                                                 *)
(***************************************************************************)
\* An identifier is a Python int or a Python str.  `text` is what str()
\* renders; `kind` keeps 1 and '1' apart, as dict keys are.
StrId(s) == [kind |-> "str", text |-> s]
IntId(n) == [kind |-> "int", text |-> ToString(n)]

\* str(ident)
str(ident) == StrId(ident.text)

\* '{}/{}.npy'.format(self._storage, str(ident)): the file of an identifier
fname(ident) == str(ident).text

\* ArrayTimeSeries(times, data)
ArrayTimeSeries(times, data) == [times |-> times, data |-> data]

\* len(ts)
len(ts) == Len(ts.data)

\* sys.getsizeof(ts)
getsizeof(ts) == ElemWidth * len(ts) + Overhead

\* the series the callers pass in: n points, contents depending on n
MkSeries(n) == ArrayTimeSeries([i \in 1..n |-> i], [i \in 1..n |-> 10 * n + i])
SeriesLens == {1, MaxLen}
Series == {MkSeries(n) : n \in SeriesLens}
Small == MkSeries(1)
Big == MkSeries(MaxLen)
\* a series whose footprint alone is over the budget
HugeLen == 2 * MaxLen + 2
Huge == MkSeries(HugeLen)

\* identifiers the callers of the manager pass in
Idents == {StrId("a"), StrId("1"), IntId(1)}

\* max_cache_size arguments of the constructor
MaxCacheSizes == {1}

\* np.array([times, data]): row 1 the time points, row 2 the data points
np_array(ts) == <<ts.times, ts.data>>

\* A file is readable with its two rows, or unreadable (truncated write).
Readable(rows) == [ok |-> TRUE, rows |-> rows]
Unreadable == [ok |-> FALSE, rows |-> <<>>]

\* outcomes of np.save: written, failed before the file was opened,
\* failed after the file was opened for writing
SaveFaults == {"open", "write"}

\* np.save(fname, dstore)
np_save(fs, f, dstore, fault) ==
    CASE fault = "none"  -> [files |-> [g \in DOMAIN fs \cup {f} |->
                                          IF g = f THEN Readable(dstore) ELSE fs[g]],
                             raised |-> FALSE]
      [] fault = "open"  -> [files |-> fs, raised |-> TRUE]
      [] fault = "write" -> [files |-> [g \in DOMAIN fs \cup {f} |->
                                          IF g = f THEN Unreadable ELSE fs[g]],
                             raised |-> TRUE]

\* np.load answering with two empty rows for a file it cannot read
np_load_lenient(fs, f) ==
    IF f \in DOMAIN fs /\ fs[f].ok
    THEN [raised |-> FALSE, dstore |-> fs[f].rows]
    ELSE [raised |-> FALSE, dstore |-> << << >>, << >> >>]

\* np.load(fname)
np_load(fs, f) ==
    IF f \in DOMAIN fs /\ fs[f].ok
    THEN [raised |-> FALSE, dstore |-> fs[f].rows]
    ELSE [raised |-> TRUE, dstore |-> <<>>]

(***************************************************************************)
(* The cache: `c` is [cache, order, size, max], the fields _cache,         *)
(* _cache_order, _cache_size and _cache_size_max of the manager.           *)
(***************************************************************************)
\* the delete from the dict left out
DictDel_kept(d, k) == d

\* del d[k]
DictDel(d, k) == [x \in DOMAIN d \ {k} |-> d[x]]
\* d[k] = v
DictSet(d, k, v) == [x \in DOMAIN d \cup {k} |-> IF x = k THEN v ELSE d[x]]
\* k in the list
InList(l, k) == \E j \in 1..Len(l) : l[j] = k
\* the delete from the list left out
ListRemove_skipped(l, k) == l

\* del l[l.index(k)]
ListRemove(l, k) ==
    LET j == CHOOSE m \in 1..Len(l) : l[m] = k /\ \A p \in 1..(m - 1) : l[p] # k
    IN  SubSeq(l, 1, j - 1) \o SubSeq(l, j + 1, Len(l))

\* the while loop deleting the head's map entry and leaving the queue as
\* it is
RECURSIVE TrimLoop_mapOnly(_, _, _, _, _, _)
TrimLoop_mapOnly(cache, order, max, trimmed, i, removed) ==
    IF trimmed * TrimDen < TrimNum * max /\ i < Len(order)
    THEN IF order[i + 1] \notin DOMAIN cache \/ order[1] \notin DOMAIN cache
         THEN [cache |-> cache, order |-> order, trimmed |-> trimmed,
               removed |-> removed, raised |-> TRUE]
         ELSE TrimLoop_mapOnly(DictDel(cache, order[1]), order, max,
                               trimmed + getsizeof(cache[order[i + 1]]), i + 1,
                               Append(removed, order[1]))
    ELSE [cache |-> cache, order |-> order, trimmed |-> trimmed,
          removed |-> removed, raised |-> FALSE]

\* the while loop deleting the entry it measured, at index i, not the head
RECURSIVE TrimLoop_atIndex(_, _, _, _, _, _)
TrimLoop_atIndex(cache, order, max, trimmed, i, removed) ==
    IF trimmed * TrimDen < TrimNum * max /\ i < Len(order)
    THEN IF order[i + 1] \notin DOMAIN cache
         THEN [cache |-> cache, order |-> order, trimmed |-> trimmed,
               removed |-> removed, raised |-> TRUE]
         ELSE TrimLoop_atIndex(DictDel(cache, order[i + 1]),
                               SubSeq(order, 1, i) \o SubSeq(order, i + 2, Len(order)),
                               max, trimmed + getsizeof(cache[order[i + 1]]), i + 1,
                               Append(removed, order[i + 1]))
    ELSE [cache |-> cache, order |-> order, trimmed |-> trimmed,
          removed |-> removed, raised |-> FALSE]

\* the while loop of _cache_store; i counts from 0 as in the source
RECURSIVE TrimLoop(_, _, _, _, _, _)
TrimLoop(cache, order, max, trimmed, i, removed) ==
    IF trimmed * TrimDen < TrimNum * max /\ i < Len(order)
    THEN IF order[i + 1] \notin DOMAIN cache \/ order[1] \notin DOMAIN cache
         THEN [cache |-> cache, order |-> order, trimmed |-> trimmed,
               removed |-> removed, raised |-> TRUE]
         ELSE TrimLoop(DictDel(cache, order[1]), Tail(order), max,
                       trimmed + getsizeof(cache[order[i + 1]]), i + 1,
                       Append(removed, order[1]))
    ELSE [cache |-> cache, order |-> order, trimmed |-> trimmed,
          removed |-> removed, raised |-> FALSE]

\* _cache_store putting the entry in the map and the queue before it trims
_cache_store_insertFirst(c, ident, ts) ==
    LET size1 == c.size + getsizeof(ts)
        order0 == Append(IF InList(c.order, ident) THEN ListRemove(c.order, ident)
                         ELSE c.order, ident)
        t == IF size1 > c.max
             THEN TrimLoop(DictSet(c.cache, ident, ts), order0, c.max, 0, 0, <<>>)
             ELSE [cache |-> DictSet(c.cache, ident, ts), order |-> order0,
                   trimmed |-> 0, removed |-> <<>>, raised |-> FALSE]
    IN  [c |-> [cache |-> t.cache, order |-> t.order,
                size |-> size1 - t.trimmed, max |-> c.max],
         removed |-> t.removed, raised |-> t.raised]

\* _cache_store keeping the series an identifier already has in the cache
_cache_store_keep(c, ident, ts) ==
    LET size1 == c.size + getsizeof(ts)
        t == IF size1 > c.max
             THEN TrimLoop(c.cache, c.order, c.max, 0, 0, <<>>)
             ELSE [cache |-> c.cache, order |-> c.order, trimmed |-> 0,
                   removed |-> <<>>, raised |-> FALSE]
        order1 == IF InList(t.order, ident) THEN ListRemove(t.order, ident) ELSE t.order
    IN  IF t.raised
        THEN [c |-> [cache |-> t.cache, order |-> t.order, size |-> size1, max |-> c.max],
              removed |-> t.removed, raised |-> TRUE]
        ELSE [c |-> [cache |-> IF ident \in DOMAIN t.cache THEN t.cache
                               ELSE DictSet(t.cache, ident, ts),
                     order |-> Append(order1, ident),
                     size |-> size1 - t.trimmed, max |-> c.max],
              removed |-> t.removed, raised |-> FALSE]

\* FileStorageManager._cache_store
_cache_store(c, ident, ts) ==
    LET size1 == c.size + getsizeof(ts)
        t == IF size1 > c.max
             THEN TrimLoop(c.cache, c.order, c.max, 0, 0, <<>>)
             ELSE [cache |-> c.cache, order |-> c.order, trimmed |-> 0,
                   removed |-> <<>>, raised |-> FALSE]
        order1 == IF InList(t.order, ident) THEN ListRemove(t.order, ident) ELSE t.order
    IN  IF t.raised
        THEN [c |-> [cache |-> t.cache, order |-> t.order, size |-> size1, max |-> c.max],
              removed |-> t.removed, raised |-> TRUE]
        ELSE [c |-> [cache |-> DictSet(t.cache, ident, ts),
                     order |-> Append(order1, ident),
                     size |-> size1 - t.trimmed, max |-> c.max],
              removed |-> t.removed, raised |-> FALSE]

\* _cache_get returning the entry without moving it in the queue
_cache_get_nobump(c, ident) ==
    IF ident \notin DOMAIN c.cache \/ ~InList(c.order, ident)
    THEN [c |-> c, raised |-> TRUE, ts |-> <<>>]
    ELSE [c |-> c, raised |-> FALSE, ts |-> <<c.cache[ident]>>]

\* FileStorageManager._cache_get
_cache_get(c, ident) ==
    IF ident \notin DOMAIN c.cache \/ ~InList(c.order, ident)
    THEN [c |-> c, raised |-> TRUE, ts |-> <<>>]
    ELSE [c |-> [c EXCEPT !.order = Append(ListRemove(c.order, ident), ident)],
          raised |-> FALSE, ts |-> <<c.cache[ident]>>]

(***************************************************************************)
(* The manager: `m` is [c, files].  Each operation yields the manager      *)
(* after the call and the outcome of the call: exc is "none" or the        *)
(* exception that reaches the caller, ret the value returned (a sequence   *)
(* of length one), hit whether the cache answered, removed the identifiers *)
(* evicted.                                                                *)
(***************************************************************************)
Outcome(m, exc, ret, hit, removed) ==
    [m |-> m, exc |-> exc, ret |-> ret, hit |-> hit, removed |-> removed]

\* store filling the cache before it writes the file
store_cacheFirst(m, ident, ts, fault) ==
    LET dstore == np_array(ts)
        sv == np_save(m.files, fname(ident), dstore, fault)
        cs == _cache_store(m.c, ident, ts)
    IN  IF cs.raised
        THEN Outcome([m EXCEPT !.c = cs.c], "KeyError", <<>>, FALSE, cs.removed)
        ELSE Outcome([c |-> cs.c, files |-> sv.files],
                     IF sv.raised THEN "IOError" ELSE "none", <<>>, FALSE, cs.removed)

\* FileStorageManager.store
store(m, ident, ts, fault) ==
    LET dstore == np_array(ts)
        sv == np_save(m.files, fname(ident), dstore, fault)
        cs == _cache_store(m.c, ident, ts)
    IN  IF sv.raised
        THEN Outcome([m EXCEPT !.files = sv.files], "IOError", <<>>, FALSE, <<>>)
        ELSE Outcome([c |-> cs.c, files |-> sv.files],
                     IF cs.raised THEN "KeyError" ELSE "none", <<>>, FALSE, cs.removed)

\* get reading the rows of the file in the wrong order
get_swapped(m, ident) ==
    LET cg == _cache_get(m.c, ident)
        ld == np_load(m.files, fname(ident))
        ats == ArrayTimeSeries(ld.dstore[2], ld.dstore[1])
        cs == _cache_store(m.c, ident, ats)
    IN  IF ~cg.raised
        THEN Outcome([m EXCEPT !.c = cg.c], "none", cg.ts, TRUE, <<>>)
        ELSE IF ld.raised
             THEN Outcome(m, "KeyError", <<>>, FALSE, <<>>)
             ELSE IF cs.raised
                  THEN Outcome([m EXCEPT !.c = cs.c], "KeyError", <<>>, FALSE, cs.removed)
                  ELSE Outcome([m EXCEPT !.c = cs.c], "none", <<ats>>, FALSE, cs.removed)

\* FileStorageManager.get
get(m, ident) ==
    LET cg == _cache_get(m.c, ident)
        ld == np_load(m.files, fname(ident))
        ats == ArrayTimeSeries(ld.dstore[1], ld.dstore[2])
        cs == _cache_store(m.c, ident, ats)
    IN  IF ~cg.raised
        THEN Outcome([m EXCEPT !.c = cg.c], "none", cg.ts, TRUE, <<>>)
        ELSE IF ld.raised
             THEN Outcome(m, "KeyError", <<>>, FALSE, <<>>)
             ELSE IF cs.raised
                  THEN Outcome([m EXCEPT !.c = cs.c], "KeyError", <<>>, FALSE, cs.removed)
                  ELSE Outcome([m EXCEPT !.c = cs.c], "none", <<ats>>, FALSE, cs.removed)

\* size answering 0 for a series that is not found
size_zero(m, ident) ==
    LET g == get(m, ident)
    IN  IF g.exc # "none" THEN [g EXCEPT !.exc = "none", !.ret = <<0>>]
        ELSE [g EXCEPT !.ret = <<len(g.ret[1])>>]

\* FileStorageManager.size
size(m, ident) ==
    LET g == get(m, ident)
    IN  IF g.exc # "none" THEN g ELSE [g EXCEPT !.ret = <<len(g.ret[1])>>]

(***************************************************************************)
(* SMTimeSeries.  A handle keeps its identifier and its manager; the model *)
(* has the one manager SMTimeSeries._fsm, which every handle uses.         *)
(***************************************************************************)
\* sum of the elements of a sequence
RECURSIVE SumSeq(_)
SumSeq(q) == IF q = << >> THEN 0 ELSE q[1] + SumSeq(Tail(q))

\* hash((tuple(time_points), tuple(data_points))): an int that is a function
\* of the contents
hash(times, data) == IntId(31 * SumSeq(times) + SumSeq(data))

\* __init__ deriving the identifier from the contents and from the number
\* of files in the storage directory
__init___salted(m, data, identArg, fault) ==
    LET ident == IF identArg = << >>
                 THEN IntId(31 * SumSeq(data[1].times) + SumSeq(data[1].data)
                            + Cardinality(DOMAIN m.files))
                 ELSE str(identArg[1])
        st == store(m, ident, ArrayTimeSeries(data[1].times, data[1].data), fault)
    IN  IF identArg = << >> /\ data = << >>
        THEN Outcome(m, "TypeError", <<>>, FALSE, <<>>)
        ELSE IF data = << >>
             THEN Outcome(m, "none", <<ident>>, FALSE, <<>>)
             ELSE IF st.exc # "none" THEN st ELSE [st EXCEPT !.ret = <<ident>>]

\* SMTimeSeries.__init__(time_points, data_points, ident): data is the
\* series of both point sequences or empty for None, identArg the ident
\* argument or empty for None; ret is the identifier of the new handle
__init__(m, data, identArg, fault) ==
    LET ident == IF identArg = << >>
                 THEN hash(data[1].times, data[1].data)
                 ELSE str(identArg[1])
        st == store(m, ident, ArrayTimeSeries(data[1].times, data[1].data), fault)
    IN  IF identArg = << >> /\ data = << >>
        THEN Outcome(m, "TypeError", <<>>, FALSE, <<>>)
        ELSE IF data = << >>
             THEN Outcome(m, "none", <<ident>>, FALSE, <<>>)
             ELSE IF st.exc # "none" THEN st ELSE [st EXCEPT !.ret = <<ident>>]

\* from_db building the handle without looking the series up
from_db_unchecked(m, ident) == __init__(m, <<>>, <<ident>>, "none")

\* SMTimeSeries.from_db(ident)
from_db(m, ident) ==
    LET g == get(m, ident)
        obj == __init__(g.m, <<>>, <<ident>>, "none")
    IN  IF g.exc # "none"
        THEN [g EXCEPT !.exc = "KeyError", !.ret = <<>>]
        ELSE [obj EXCEPT !.hit = g.hit, !.removed = g.removed]

\* SMTimeSeries.__len__
__len__(m, ident) == size(m, ident)

\* SMTimeSeries.__iter__: the data points of the series
__iter__(m, ident) ==
    LET g == get(m, ident)
    IN  IF g.exc # "none" THEN g ELSE [g EXCEPT !.ret = <<g.ret[1].data>>]

\* SMTimeSeries.itertimes: the time points of the series
itertimes(m, ident) ==
    LET g == get(m, ident)
    IN  IF g.exc # "none" THEN g ELSE [g EXCEPT !.ret = <<g.ret[1].times>>]

(***************************************************************************)
(* State.                                                                  *)
(***************************************************************************)
VARIABLES
    _cache,           \* self._cache
    _cache_order,     \* self._cache_order
    _cache_size,      \* self._cache_size
    _cache_size_max,  \* self._cache_size_max
    files,            \* the .npy files of the storage directory
    op,               \* the call that completed last, with what it observed
    written,          \* identifier -> series of its last successful store
    saved,            \* file -> series of the last successful np.save to it
    access,           \* identifiers by last successful access, latest last
    handles,          \* the handles built, each with the data it was built from
    threads,          \* thread -> where it stands in its call, and its locals
    overlapped        \* a call began while another thread was inside a call

vars == <<_cache, _cache_order, _cache_size, _cache_size_max, files, op,
          written, saved, access, handles, threads, overlapped>>

\* the threads that share the manager
Threads == {1, 2}

\* a thread outside any call; lookup tells whether its last call met a
\* lookup that failed inside the eviction loop or the recency bump, calls
\* how many calls it has made
Idle(lookup, calls) == [pc |-> "idle", ident |-> StrId(""), ts |-> << >>,
                        trimmed |-> 0, i |-> 0, lookup |-> lookup,
                        calls |-> calls]

\* the manager as the record the operations work on
Manager == [c |-> [cache |-> _cache, order |-> _cache_order,
                   size |-> _cache_size, max |-> _cache_size_max],
            files |-> files]

\* what the file of an identifier looks like
Artifact(fs, ident) ==
    IF fname(ident) \notin DOMAIN fs THEN "absent"
    ELSE IF fs[fname(ident)].ok THEN "ok" ELSE "unreadable"

\* the record of a completed call
Call(name, ident, h, o) ==
    [name |-> name, ident |-> ident, h |-> h, exc |-> o.exc, ret |-> o.ret,
     hit |-> o.hit, removed |-> o.removed]

\* the manager's fields after a call
Becomes(o) ==
    /\ _cache' = o.m.c.cache
    /\ _cache_order' = o.m.c.order
    /\ _cache_size' = o.m.c.size
    /\ _cache_size_max' = o.m.c.max
    /\ files' = o.m.files
    /\ UNCHANGED <<threads, overlapped>>

\* the identifier becomes the latest accessed one
Touch(acc, ident) ==
    Append(IF InList(acc, ident) THEN ListRemove(acc, ident) ELSE acc, ident)

\* the history after a call on ident: a successful store is recorded for
\* the identifier and for its file, a successful call is an access
Recorded(name, ident, arg, o) ==
    /\ written' = IF name = "store" /\ o.exc = "none"
                  THEN DictSet(written, ident, arg[1]) ELSE written
    /\ saved' = IF name = "store" /\ o.exc = "none"
                THEN DictSet(saved, fname(ident), arg[1]) ELSE saved
    /\ access' = IF o.exc = "none" THEN Touch(access, ident) ELSE access

\* FileStorageManager.__init__ on an empty storage directory
Init ==
    /\ _cache = << >>
    /\ _cache_order = << >>
    /\ _cache_size = 0
    /\ \E mcs \in MaxCacheSizes : _cache_size_max = mcs * CacheSizeUnit
    /\ files = << >>
    /\ op = [name |-> "init", ident |-> StrId(""), h |-> 0, exc |-> "none",
             ret |-> <<>>, hit |-> FALSE, removed |-> <<>>]
    /\ written = << >>
    /\ saved = << >>
    /\ access = << >>
    /\ handles = << >>
    /\ threads = [t \in Threads |-> Idle("ok", 0)]
    /\ overlapped = FALSE

\* store(ident, ts), np.save succeeding
Store(ident, ts) ==
    \E o \in {store(Manager, ident, ts, "none")} :
        /\ Becomes(o)
        /\ op' = Call("store", ident, 0, o)
        /\ Recorded("store", ident, <<ts>>, o)
        /\ UNCHANGED handles

\* store(ident, ts), np.save raising
StoreFails(ident, ts, fault) ==
    \E o \in {store(Manager, ident, ts, fault)} :
        /\ Becomes(o)
        /\ op' = Call("store", ident, 0, o)
        /\ Recorded("store", ident, <<ts>>, o)
        /\ UNCHANGED handles

\* get(ident)
Get(ident) ==
    \E o \in {get(Manager, ident)} :
        /\ Becomes(o)
        /\ op' = Call("get", ident, 0, o)
        /\ Recorded("get", ident, <<>>, o)
        /\ UNCHANGED handles

\* size(ident)
Size(ident) ==
    \E o \in {size(Manager, ident)} :
        /\ Becomes(o)
        /\ op' = Call("size", ident, 0, o)
        /\ Recorded("size", ident, <<>>, o)
        /\ UNCHANGED handles

Next ==
    \/ \E ident \in Idents, ts \in Series : Store(ident, ts)
    \/ \E ident \in Idents, ts \in Series, fault \in SaveFaults : StoreFails(ident, ts, fault)
    \/ \E ident \in Idents : Get(ident)
    \/ \E ident \in Idents : Size(ident)

Spec == Init /\ [][Next]_vars

\* the manager used without a failing write
NextNoFault ==
    \/ \E ident \in Idents, ts \in Series : Store(ident, ts)
    \/ \E ident \in Idents : Get(ident)
    \/ \E ident \in Idents : Size(ident)

SpecNoFault == Init /\ [][NextNoFault]_vars

\* the manager used for successful stores only
NextStores == \E ident \in Idents, ts \in Series : Store(ident, ts)

SpecStores == Init /\ [][NextStores]_vars

\* the manager used with a series larger than its whole budget among the
\* series stored
NextOversized ==
    \/ \E ident \in Idents, ts \in Series \cup {Huge} : Store(ident, ts)
    \/ \E ident \in Idents : Get(ident)
    \/ \E ident \in Idents : Size(ident)

SpecOversized == Init /\ [][NextOversized]_vars

\* ident arguments of the handle constructors
HandleIdents == {IntId(1)}
\* the ident argument, or none
IdentArgs == {<<>>} \cup {<<k>> : k \in HandleIdents}
\* the point sequences, or none
DataArgs == {<<>>} \cup {<<ts>> : ts \in Series}

\* the identifier SMTimeSeries.__init__ settles on
IdentOf(data, identArg) ==
    IF identArg # << >> THEN str(identArg[1])
    ELSE IF data # << >> THEN hash(data[1].times, data[1].data) ELSE StrId("")

\* the new handle, when the constructor returned
Built(o, data) ==
    handles' = IF o.exc = "none"
               THEN Append(handles, [ident |-> o.ret[1], data |-> data])
               ELSE handles

\* SMTimeSeries(time_points, data_points, ident), np.save succeeding
Construct(data, identArg) ==
    /\ Len(handles) < MaxHandles
    /\ \E o \in {__init__(Manager, data, identArg, "none")} :
        /\ Becomes(o)
        /\ op' = Call("__init__", IdentOf(data, identArg), Len(handles) + 1, o)
        /\ IF data = << >>
           THEN UNCHANGED <<written, saved, access>>
           ELSE Recorded("store", IdentOf(data, identArg), data, o)
        /\ Built(o, data)

\* SMTimeSeries(time_points, data_points, ident), np.save raising
ConstructFails(ts, identArg, fault) ==
    /\ Len(handles) < MaxHandles
    /\ \E o \in {__init__(Manager, <<ts>>, identArg, fault)} :
        /\ Becomes(o)
        /\ op' = Call("__init__", IdentOf(<<ts>>, identArg), Len(handles) + 1, o)
        /\ Recorded("store", IdentOf(<<ts>>, identArg), <<ts>>, o)
        /\ Built(o, <<ts>>)

\* SMTimeSeries.from_db(ident)
FromDb(ident) ==
    /\ Len(handles) < MaxHandles
    /\ \E o \in {from_db(Manager, ident)} :
        /\ Becomes(o)
        /\ op' = Call("from_db", ident, Len(handles) + 1, o)
        /\ Recorded("get", ident, <<>>, o)
        /\ Built(o, <<>>)

\* len(h)
HLen(h) ==
    \E o \in {__len__(Manager, handles[h].ident)} :
        /\ Becomes(o)
        /\ op' = Call("__len__", handles[h].ident, h, o)
        /\ Recorded("size", handles[h].ident, <<>>, o)
        /\ UNCHANGED handles

\* iter(h)
HIter(h) ==
    \E o \in {__iter__(Manager, handles[h].ident)} :
        /\ Becomes(o)
        /\ op' = Call("__iter__", handles[h].ident, h, o)
        /\ Recorded("get", handles[h].ident, <<>>, o)
        /\ UNCHANGED handles

\* h.itertimes()
HIterTimes(h) ==
    \E o \in {itertimes(Manager, handles[h].ident)} :
        /\ Becomes(o)
        /\ op' = Call("itertimes", handles[h].ident, h, o)
        /\ Recorded("get", handles[h].ident, <<>>, o)
        /\ UNCHANGED handles

\* identifiers that callers of the manager other than the handles store
OtherIdents == {StrId("b")}

\* the manager used through handles, and by another caller
NextHandles ==
    \/ \E ident \in OtherIdents : Store(ident, Big)
    \/ \E data \in DataArgs, identArg \in IdentArgs : Construct(data, identArg)
    \/ \E ts \in Series, identArg \in IdentArgs, fault \in SaveFaults :
         ConstructFails(ts, identArg, fault)
    \/ \E ident \in HandleIdents : FromDb(ident)
    \/ \E h \in 1..Len(handles) : HLen(h)
    \/ \E h \in 1..Len(handles) : HIter(h)
    \/ \E h \in 1..Len(handles) : HIterTimes(h)

SpecHandles == Init /\ [][NextHandles]_vars

(***************************************************************************)
(* Two threads sharing the manager with no lock: a call is a sequence of   *)
(* steps, one per statement that reads or writes the manager's fields, and *)
(* the steps of the two threads interleave.                                *)
(***************************************************************************)
\* identifiers and series the threads pass in
ThreadIdents == {StrId("a"), StrId("1")}
ThreadSeries == {Big}

\* the history of completed calls is not kept for the threads
NoCall == UNCHANGED <<op, written, saved, access, handles>>

\* thread t moves on
Goes(t, r) == threads' = [threads EXCEPT ![t] = r]

\* thread t starts a call
Begins(t, pc, ident, ts) ==
    /\ threads[t].pc = "idle"
    /\ threads[t].calls < MaxCalls
    /\ Goes(t, [pc |-> pc, ident |-> ident, ts |-> ts, trimmed |-> 0, i |-> 0,
                lookup |-> "ok", calls |-> threads[t].calls + 1])
    /\ overlapped' = (overlapped \/ \E u \in Threads \ {t} : threads[u].pc # "idle")
    /\ UNCHANGED <<_cache, _cache_order, _cache_size, _cache_size_max, files>>
    /\ NoCall

\* a lookup raised inside _cache_store: the exception leaves the call
Raises(t) == Goes(t, Idle("failed", threads[t].calls))

\* store(ident, ts) is called
TStoreBegin(t, ident, ts) == Begins(t, "save", ident, <<ts>>)

\* np.save(fname, dstore)
TSave(t) ==
    /\ threads[t].pc = "save"
    /\ files' = np_save(files, fname(threads[t].ident),
                        np_array(threads[t].ts[1]), "none").files
    /\ Goes(t, [threads[t] EXCEPT !.pc = "cs_add"])
    /\ UNCHANGED <<_cache, _cache_order, _cache_size, _cache_size_max, overlapped>>
    /\ NoCall

\* get(ident) is called
TGetBegin(t, ident) == Begins(t, "cg_lookup", ident, << >>)

\* _cache_get: ts = self._cache[ident], a KeyError sending get to the file
TCacheLookup(t) ==
    /\ threads[t].pc = "cg_lookup"
    /\ Goes(t, [threads[t] EXCEPT
                  !.pc = IF threads[t].ident \in DOMAIN _cache
                         THEN "cg_del" ELSE "load"])
    /\ UNCHANGED <<_cache, _cache_order, _cache_size, _cache_size_max, files,
                   overlapped>>
    /\ NoCall

\* _cache_get: del self._cache_order[self._cache_order.index(ident)]; the
\* ValueError of index is caught by get, which goes to the file
TBumpDelete(t) ==
    /\ threads[t].pc = "cg_del"
    /\ IF InList(_cache_order, threads[t].ident)
       THEN /\ _cache_order' = ListRemove(_cache_order, threads[t].ident)
            /\ Goes(t, [threads[t] EXCEPT !.pc = "cg_app"])
       ELSE /\ UNCHANGED _cache_order
            /\ Goes(t, [threads[t] EXCEPT !.pc = "load", !.lookup = "failed"])
    /\ UNCHANGED <<_cache, _cache_size, _cache_size_max, files, overlapped>>
    /\ NoCall

\* _cache_get: self._cache_order.append(ident), and get returns
TBumpAppend(t) ==
    /\ threads[t].pc = "cg_app"
    /\ _cache_order' = Append(_cache_order, threads[t].ident)
    /\ Goes(t, Idle(threads[t].lookup, threads[t].calls))
    /\ UNCHANGED <<_cache, _cache_size, _cache_size_max, files, overlapped>>
    /\ NoCall

\* get: np.load and ArrayTimeSeries(dstore[0], dstore[1]); get raises
\* KeyError when the file cannot be read
TLoad(t) ==
    /\ threads[t].pc = "load"
    /\ LET ld == np_load(files, fname(threads[t].ident))
       IN  IF ld.raised
           THEN Goes(t, Idle(threads[t].lookup, threads[t].calls))
           ELSE Goes(t, [threads[t] EXCEPT
                           !.pc = "cs_add",
                           !.ts = <<ArrayTimeSeries(ld.dstore[1], ld.dstore[2])>>])
    /\ UNCHANGED <<_cache, _cache_order, _cache_size, _cache_size_max, files,
                   overlapped>>
    /\ NoCall

\* _cache_store: self._cache_size += sys.getsizeof(ts)
TSizeAdd(t) ==
    /\ threads[t].pc = "cs_add"
    /\ _cache_size' = _cache_size + getsizeof(threads[t].ts[1])
    /\ Goes(t, [threads[t] EXCEPT !.pc = "cs_test"])
    /\ UNCHANGED <<_cache, _cache_order, _cache_size_max, files, overlapped>>
    /\ NoCall

\* _cache_store: if self._cache_size > self._cache_size_max, with trimmed
\* and i set to 0
TSizeTest(t) ==
    /\ threads[t].pc = "cs_test"
    /\ Goes(t, [threads[t] EXCEPT
                  !.pc = IF _cache_size > _cache_size_max
                         THEN "cs_while" ELSE "cs_put",
                  !.trimmed = 0, !.i = 0])
    /\ UNCHANGED <<_cache, _cache_order, _cache_size, _cache_size_max, files,
                   overlapped>>
    /\ NoCall

\* _cache_store: while trimmed < trimsize and i < len(self._cache_order)
TWhile(t) ==
    /\ threads[t].pc = "cs_while"
    /\ Goes(t, [threads[t] EXCEPT
                  !.pc = IF /\ threads[t].trimmed * TrimDen < TrimNum * _cache_size_max
                            /\ threads[t].i < Len(_cache_order)
                         THEN "cs_measure" ELSE "cs_sub"])
    /\ UNCHANGED <<_cache, _cache_order, _cache_size, _cache_size_max, files,
                   overlapped>>
    /\ NoCall

\* _cache_store: trimmed += sys.getsizeof(self._cache[self._cache_order[i]])
TMeasure(t) ==
    /\ threads[t].pc = "cs_measure"
    /\ IF /\ threads[t].i < Len(_cache_order)
          /\ _cache_order[threads[t].i + 1] \in DOMAIN _cache
       THEN Goes(t, [threads[t] EXCEPT
                       !.pc = "cs_delmap",
                       !.trimmed = @ + getsizeof(_cache[_cache_order[threads[t].i + 1]])])
       ELSE Raises(t)
    /\ UNCHANGED <<_cache, _cache_order, _cache_size, _cache_size_max, files,
                   overlapped>>
    /\ NoCall

\* _cache_store: del self._cache[self._cache_order[0]]
TDelMap(t) ==
    /\ threads[t].pc = "cs_delmap"
    /\ IF Len(_cache_order) > 0 /\ _cache_order[1] \in DOMAIN _cache
       THEN /\ _cache' = DictDel(_cache, _cache_order[1])
            /\ Goes(t, [threads[t] EXCEPT !.pc = "cs_delord"])
       ELSE /\ UNCHANGED _cache
            /\ Raises(t)
    /\ UNCHANGED <<_cache_order, _cache_size, _cache_size_max, files, overlapped>>
    /\ NoCall

\* _cache_store: del self._cache_order[0] and i += 1
TDelOrder(t) ==
    /\ threads[t].pc = "cs_delord"
    /\ IF Len(_cache_order) > 0
       THEN /\ _cache_order' = Tail(_cache_order)
            /\ Goes(t, [threads[t] EXCEPT !.pc = "cs_while", !.i = @ + 1])
       ELSE /\ UNCHANGED _cache_order
            /\ Raises(t)
    /\ UNCHANGED <<_cache, _cache_size, _cache_size_max, files, overlapped>>
    /\ NoCall

\* _cache_store: self._cache_size -= trimmed
TSizeSub(t) ==
    /\ threads[t].pc = "cs_sub"
    /\ _cache_size' = _cache_size - threads[t].trimmed
    /\ Goes(t, [threads[t] EXCEPT !.pc = "cs_put"])
    /\ UNCHANGED <<_cache, _cache_order, _cache_size_max, files, overlapped>>
    /\ NoCall

\* _cache_store: self._cache[ident] = ts
TPut(t) ==
    /\ threads[t].pc = "cs_put"
    /\ _cache' = DictSet(_cache, threads[t].ident, threads[t].ts[1])
    /\ Goes(t, [threads[t] EXCEPT !.pc = "cs_del"])
    /\ UNCHANGED <<_cache_order, _cache_size, _cache_size_max, files, overlapped>>
    /\ NoCall

\* _cache_store: del self._cache_order[self._cache_order.index(ident)],
\* the ValueError passed over
TQueueDelete(t) ==
    /\ threads[t].pc = "cs_del"
    /\ _cache_order' = IF InList(_cache_order, threads[t].ident)
                       THEN ListRemove(_cache_order, threads[t].ident)
                       ELSE _cache_order
    /\ Goes(t, [threads[t] EXCEPT !.pc = "cs_app"])
    /\ UNCHANGED <<_cache, _cache_size, _cache_size_max, files, overlapped>>
    /\ NoCall

\* _cache_store: self._cache_order.append(ident), and the call returns
TQueueAppend(t) ==
    /\ threads[t].pc = "cs_app"
    /\ _cache_order' = Append(_cache_order, threads[t].ident)
    /\ Goes(t, Idle(threads[t].lookup, threads[t].calls))
    /\ UNCHANGED <<_cache, _cache_size, _cache_size_max, files, overlapped>>
    /\ NoCall

NextThreads ==
    \/ \E t \in Threads, ident \in ThreadIdents, ts \in ThreadSeries :
         TStoreBegin(t, ident, ts)
    \/ \E t \in Threads, ident \in ThreadIdents : TGetBegin(t, ident)
    \/ \E t \in Threads : TSave(t)
    \/ \E t \in Threads : TCacheLookup(t)
    \/ \E t \in Threads : TBumpDelete(t)
    \/ \E t \in Threads : TBumpAppend(t)
    \/ \E t \in Threads : TLoad(t)
    \/ \E t \in Threads : TSizeAdd(t)
    \/ \E t \in Threads : TSizeTest(t)
    \/ \E t \in Threads : TWhile(t)
    \/ \E t \in Threads : TMeasure(t)
    \/ \E t \in Threads : TDelMap(t)
    \/ \E t \in Threads : TDelOrder(t)
    \/ \E t \in Threads : TSizeSub(t)
    \/ \E t \in Threads : TPut(t)
    \/ \E t \in Threads : TQueueDelete(t)
    \/ \E t \in Threads : TQueueAppend(t)

SpecThreads == Init /\ [][NextThreads]_vars

(***************************************************************************)
(* Properties.                                                             *)
(***************************************************************************)
Reads == {"get", "size"}

\* what a read of series ts returns: get the series, size its length
Returned(name, ts) == IF name = "size" THEN <<len(ts)>> ELSE <<ts>>

\* C1: a get of an identifier returns the series of the most recent
\* successful store under that identifier, whatever was called in between.
C1_GetReturnsLastStore ==
    (op.name = "get" /\ op.ident \in DOMAIN written)
        => (op.exc = "none" /\ op.ret = <<written[op.ident]>>)

\* C2: a get or a size of an identifier that is in neither the cache nor
\* the storage directory, or that was never stored under any rendering of
\* its file name, raises KeyError and returns nothing.
C2_MissRaisesKeyError ==
    (/\ op.name \in Reads
     /\ \/ ~op.hit /\ Artifact(files, op.ident) = "absent"
        \/ \A w \in DOMAIN written : fname(w) # fname(op.ident))
        => (op.exc = "KeyError" /\ op.ret = <<>>)

C2_Witness ==
    /\ op.name = "size"
    /\ Artifact(files, op.ident) = "absent"
    /\ op.exc = "KeyError"
    /\ _cache # << >>

\* C3: after a successful store the tracked cache size exceeds the budget
\* by no more than the footprint of the entry that was just inserted.
C3_SizeWithinBudgetPlusOne ==
    (op.name = "store" /\ op.exc = "none")
        => _cache_size <= _cache_size_max + getsizeof(_cache[op.ident])

\* C4: the identifiers a call evicts are a head segment of the recency
\* queue as it stood before the call: whenever an entry leaves the cache,
\* every entry in front of it in the queue has left it too (or is the one
\* the call inserts), and the evicted identifiers are the queue's prefix.
C4_EvictionIsOldestFirst ==
    [][/\ op'.removed = SubSeq(_cache_order, 1, Len(op'.removed))
       /\ \A j \in 1..Len(_cache_order) :
            _cache_order[j] \notin DOMAIN _cache'
                => \A p \in 1..(j - 1) :
                     \/ _cache_order[p] \notin DOMAIN _cache'
                     \/ _cache_order[p] = op'.ident]_vars

C4_Witness ==
    /\ Len(op.removed) >= 2
    /\ Len(_cache_order) >= 2

\* the resident identifiers in the order of their last access
ResidentByAccess ==
    LET Resident(k) == k \in DOMAIN _cache
    IN  SelectSeq(access, Resident)

\* C5: the recency queue is the resident identifiers in the order of their
\* last access, the latest at the tail; a read that hits leaves its
\* identifier at the tail.
C5_QueueIsAccessOrder ==
    /\ _cache_order = ResidentByAccess
    /\ (op.name \in Reads /\ op.hit)
           => _cache_order[Len(_cache_order)] = op.ident

C5_Witness ==
    /\ op.name = "get"
    /\ op.hit
    /\ Len(_cache_order) >= 2
    /\ access # _cache_order

\* C6: a store whose np.save raises passes the error on to the caller and
\* leaves the cache map, the recency queue and the tracked size as they
\* were; a store that leaves its file unreadable is such a store.
C6_FailedStoreKeepsCache ==
    [][/\ (op'.name = "store" /\ Artifact(files', op'.ident) = "unreadable")
           => op'.exc = "IOError"
       /\ (op'.name = "store" /\ op'.exc # "none")
           => UNCHANGED <<_cache, _cache_order, _cache_size>>]_vars

C6_Witness ==
    /\ op.name = "store"
    /\ op.exc = "IOError"
    /\ Len(_cache_order) >= 2

\* the three identifiers of the eviction scenario, oldest first
ScenarioA == StrId("a")
ScenarioB == StrId("1")
ScenarioC == IntId(1)

\* no other identifier of the callers renders to the file of ident
OwnsFile(ident) == \A k \in Idents \ {ident} : fname(k) # fname(ident)

C8_GetTellsFailuresApart ==
    (op.name = "get" /\ ~op.hit)
        => /\ Artifact(files, op.ident) = "absent" => op.exc = "KeyError"
           /\ Artifact(files, op.ident) = "unreadable" => op.exc = "IOError"
HandleReads == {"__len__", "__iter__", "itertimes"}

\* what a read through a handle yields of series ts
View(name, ts) ==
    CASE name = "__len__"   -> <<len(ts)>>
      [] name = "__iter__"  -> <<ts.data>>
      [] name = "itertimes" -> <<ts.times>>

\* the handle was built from an identifier alone
IdentOnly(h) == handles[h].data = << >>

\* C9 as claimed: building a handle from an identifier alone raises KeyError
\* when the identifier has no series, by the constructor as by from_db, so
\* no handle stands for a series that does not exist.
C9_IdentOnlyRaisesWhenAbsent ==
    /\ (op.name = "from_db" /\ Artifact(files, op.ident) = "absent")
           => op.exc = "KeyError"
    /\ (op.name = "__init__" /\ op.exc = "none" /\ IdentOnly(op.h))
           => Artifact(files, op.ident) # "absent"
    /\ \A h \in 1..Len(handles) : Artifact(files, handles[h].ident) # "absent"

\* C9 amended: from_db raises KeyError and builds no handle when the
\* identifier has no file; a read through a handle whose identifier has no
\* file raises KeyError.
C9_FromDbRaisesWhenAbsent ==
    /\ (op.name = "from_db" /\ Artifact(files, op.ident) = "absent")
           => (op.exc = "KeyError" /\ Len(handles) < op.h)
    /\ (op.name \in HandleReads /\ Artifact(files, op.ident) = "absent")
           => (op.exc = "KeyError" /\ op.ret = <<>>)

\* from_db refused an identifier that the constructor made a handle of
C9_Witness ==
    /\ op.name = "from_db"
    /\ op.exc = "KeyError"
    /\ Artifact(files, op.ident) = "absent"
    /\ \E h \in 1..Len(handles) :
         IdentOnly(h) /\ handles[h].ident = str(op.ident)

\* handle j is the last one built with data under the identifier of handle i
LastBuilt(i, j) ==
    /\ i < j
    /\ handles[i].ident = handles[j].ident
    /\ ~IdentOnly(i)
    /\ ~IdentOnly(j)
    /\ \A n \in (j + 1)..Len(handles) :
         handles[n].ident # handles[j].ident \/ IdentOnly(n)

\* C10: a read through a handle that returns yields the series of the last
\* successful store under the handle's identifier; when a later handle was
\* built with other data under the same identifier and the identifier's
\* file is readable, the read through the earlier handle returns the later
\* data.
C10_HandleReadsThroughManager ==
    op.name \in HandleReads
        => /\ op.exc = "none"
                  => /\ op.ident \in DOMAIN written
                     /\ op.ret = View(op.name, written[op.ident])
           /\ \A j \in 1..Len(handles) :
                (LastBuilt(op.h, j) /\ Artifact(files, op.ident) = "ok")
                    => /\ op.exc = "none"
                       /\ op.ret = View(op.name, handles[j].data[1])

\* the first handle read, from the file, what the second one stored
C10_Witness ==
    /\ op.name \in HandleReads
    /\ op.h = 1
    /\ op.exc = "none"
    /\ ~op.hit
    /\ Len(handles) >= 2
    /\ LastBuilt(1, 2)
    /\ handles[1].data # handles[2].data

\* the elements of a sequence
Range(q) == {q[j] : j \in 1..Len(q)}

\* the handle record was built from point sequences with no ident argument:
\* its identifier is the int that hash returned, not a str
HashBuilt(hd) == hd.data # << >> /\ hd.ident.kind = "int"

\* C11: a handle built with no ident argument from the same point sequences
\* as an earlier such handle gets the identifier of the earlier one; its
\* construction rewrites the one file of that identifier, adds no file, and
\* leaves one cache entry and one queue position for the identifier.
C11_SameContentSameIdentifier ==
    [][\A h \in 1..Len(handles) :
         (/\ op'.name = "__init__" /\ op'.exc = "none"
          /\ Len(handles') = Len(handles) + 1
          /\ HashBuilt(handles'[Len(handles')])
          /\ HashBuilt(handles[h])
          /\ handles[h].data = handles'[Len(handles')].data)
            => LET new == handles'[Len(handles')]
               IN  /\ new.ident = handles[h].ident
                   /\ DOMAIN files' = DOMAIN files
                   /\ files'[fname(new.ident)] = Readable(np_array(new.data[1]))
                   /\ DOMAIN _cache'
                        = (DOMAIN _cache \ Range(op'.removed)) \cup {new.ident}
                   /\ _cache'[new.ident] = new.data[1]
                   /\ Cardinality({j \in 1..Len(_cache_order') :
                                     _cache_order'[j] = new.ident}) = 1]_vars

\* two handles of the same contents, both built with no ident argument
C11_Witness ==
    /\ op.name = "__init__"
    /\ op.exc = "none"
    /\ op.h = 2
    /\ Len(handles) = 2
    /\ HashBuilt(handles[1])
    /\ HashBuilt(handles[2])
    /\ handles[1].data = handles[2].data
    /\ handles[1].ident = handles[2].ident

\* bytes in a megabyte
BytesPerMB == 1024 * 1024

\* C12: the budget the tracked footprints are compared with is the
\* max_cache_size argument in megabytes, max_cache_size * 1024 * 1024 bytes.
C12_BudgetIsMegabytes ==
    \E mcs \in MaxCacheSizes : _cache_size_max = mcs * BytesPerMB

\* the footprints of the entries a call evicted, as the cache held them
RECURSIVE Freed(_, _)
Freed(removed, cache) ==
    IF removed = << >> THEN 0
    ELSE getsizeof(cache[Head(removed)]) + Freed(Tail(removed), cache)

\* C13: an insertion that finds the tracked size over the budget evicts
\* until the entries it removed add up to the trim amount (trim fraction
\* times the budget) or no previously resident entry is left.
C13_TrimsUntilEnoughFreed ==
    [][(/\ op'.name \in {"store", "get", "size"}
        /\ op'.exc = "none"
        /\ ~op'.hit
        /\ _cache_size + getsizeof(_cache'[op'.ident]) > _cache_size_max)
          => \/ Freed(op'.removed, _cache) * TrimDen >= TrimNum * _cache_size_max
             \/ Len(op'.removed) = Len(_cache_order)]_vars

\* C14: a store over an identifier that is resident, evicting nothing,
\* changes the tracked size by the new footprint minus the old one.
C14_OverwriteAddsDelta ==
    [][(/\ op'.name = "store"
        /\ op'.exc = "none"
        /\ op'.ident \in DOMAIN _cache
        /\ op'.removed = << >>)
          => _cache_size' = _cache_size + getsizeof(_cache'[op'.ident])
                                        - getsizeof(_cache[op'.ident])]_vars

\* C16: no identifier is in the recency queue twice.
C16_QueueHasNoDuplicates ==
    \A i, j \in 1..Len(_cache_order) :
        _cache_order[i] = _cache_order[j] => i = j

\* a store over the one resident identifier: one entry, two footprints
\* tracked, one queue position
C16_Witness ==
    /\ op.name = "store"
    /\ op.exc = "none"
    /\ DOMAIN _cache = {op.ident}
    /\ _cache_size = 2 * getsizeof(Small)
    /\ _cache_order = <<op.ident>>

\* C17 as claimed: every identifier in the cache map has a file that holds
\* a series, so the cache never has the only copy.
C17_CachedHasReadableArtifact ==
    \A k \in DOMAIN _cache : Artifact(files, k) = "ok"

\* C17 amended: every identifier in the cache map has a file; an entry
\* enters the cache, or changes, only in a successful store of its
\* identifier or a successful read of it from its file, the file then
\* holding the cached series; a readable file stops being readable only in
\* a store to it that fails.
C17_CachedHasArtifact ==
    [][/\ \A k \in DOMAIN _cache' : Artifact(files', k) # "absent"
       /\ \A k \in DOMAIN _cache' :
            (k \notin DOMAIN _cache \/ _cache'[k] # _cache[k])
                => /\ k = op'.ident
                   /\ op'.exc = "none"
                   /\ ~op'.hit
                   /\ files'[fname(k)] = Readable(np_array(_cache'[k]))
       /\ \A f \in DOMAIN files :
            (files[f].ok /\ ~files'[f].ok)
                => /\ op'.name = "store"
                   /\ op'.exc = "IOError"
                   /\ fname(op'.ident) = f]_vars

\* a read brought an entry in from its file while another resident
\* identifier has a file that a failed store left unreadable
C17_Witness ==
    /\ op.name = "get"
    /\ ~op.hit
    /\ op.exc = "none"
    /\ op.ident \in DOMAIN _cache
    /\ \E k \in DOMAIN _cache : Artifact(files, k) = "unreadable"

\* the footprints of the entries of the cache map, added up
RECURSIVE SumFootprints(_)
SumFootprints(cache) ==
    IF DOMAIN cache = {} THEN 0
    ELSE LET k == CHOOSE x \in DOMAIN cache : TRUE
         IN  getsizeof(cache[k]) + SumFootprints(DictDel(cache, k))

\* C19: the tracked size is the sum of the footprints of the entries in
\* the cache map, and is never negative.
C19_SizeIsSumOfFootprints ==
    /\ _cache_size = SumFootprints(_cache)
    /\ _cache_size >= 0

\* C20: every resident identifier's cached series is what its file holds,
\* also when another identifier renders to the same file name.
C20_CacheMatchesArtifact ==
    \A k \in DOMAIN _cache :
        /\ fname(k) \in DOMAIN files
        /\ files[fname(k)] = Readable(np_array(_cache[k]))

\* C15: after a successful store or get the identifier is resident, maps to
\* the series just stored or returned, and is the last element of the
\* recency queue, also when that one entry is larger than the budget.
C15_TriggeringEntryStays ==
    (op.name \in {"store", "get"} /\ op.exc = "none")
        => /\ op.ident \in DOMAIN _cache
           /\ Len(_cache_order) > 0
           /\ _cache_order[Len(_cache_order)] = op.ident
           /\ op.name = "store" => _cache[op.ident] = written[op.ident]
           /\ op.name = "get" => op.ret = <<_cache[op.ident]>>

\* a read brought in from its file an entry larger than the budget,
\* evicting what was resident
C15_Witness ==
    /\ op.name = "get"
    /\ ~op.hit
    /\ op.exc = "none"
    /\ op.removed # << >>
    /\ op.ident \in DOMAIN _cache
    /\ getsizeof(_cache[op.ident]) > _cache_size_max

\* no thread is inside a call
AllIdle == \A t \in Threads : threads[t].pc = "idle"

\* the queue and the map agree: no identifier twice in the queue, and the
\* identifiers of the queue are the keys of the map
QueueMatchesMap ==
    /\ \A i, j \in 1..Len(_cache_order) :
         _cache_order[i] = _cache_order[j] => i = j
    /\ Range(_cache_order) = DOMAIN _cache

\* C18: when no call of one thread began while the other thread was inside
\* a call, then between calls the queue and the map agree and no lookup
\* inside the eviction loop or the recency bump has failed; when calls
\* overlap, a state between calls where they disagree is reachable.
C18_SerializedCallsKeepInvariants ==
    (~overlapped /\ AllIdle)
        => /\ QueueMatchesMap
           /\ \A t \in Threads : threads[t].lookup = "ok"

\* calls overlapped, left an identifier twice in the queue, and a lookup
\* inside the eviction loop or the recency bump failed
C18_Witness ==
    /\ overlapped
    /\ AllIdle
    /\ \E i, j \in 1..Len(_cache_order) :
         i # j /\ _cache_order[i] = _cache_order[j]
    /\ \E t \in Threads : threads[t].lookup = "failed"

\* C21: with one caller the identifiers of the queue are the keys of the
\* map.  So no lookup of the eviction loop fails: a store raises nothing
\* but the error of np.save, and a read of a non-resident identifier whose
\* file is readable returns.  No lookup of the recency bump fails: a read of
\* a resident identifier is answered by the cache.  The loop ends: it makes
\* no more passes than the queue had identifiers, each pass removing one.
C21_QueueIsKeysOfMap ==
    [][/\ Range(_cache_order') = DOMAIN _cache'
       /\ Len(_cache_order') = Cardinality(DOMAIN _cache')
       /\ op'.name = "store" => op'.exc \in {"none", "IOError"}
       /\ (op'.name \in Reads /\ op'.ident \in DOMAIN _cache)
              => (op'.hit /\ op'.exc = "none" /\ op'.removed = << >>)
       /\ (/\ op'.name \in Reads
           /\ op'.ident \notin DOMAIN _cache
           /\ Artifact(files, op'.ident) = "ok")
              => (~op'.hit /\ op'.exc = "none")
       /\ Len(op'.removed) <= Len(_cache_order)
       /\ Len(_cache_order') + Len(op'.removed)
            <= Len(_cache_order) + 1]_vars

\* a store whose eviction loop made two passes, every lookup of them
\* answered, and left the stored identifier alone in the queue and the map
C21_Witness ==
    /\ op.name = "store"
    /\ op.exc = "none"
    /\ Len(op.removed) = 2
    /\ _cache_order = <<op.ident>>
    /\ DOMAIN _cache = {op.ident}
====
